---- MODULE Spec2Model ----
(***************************************************************************)
(* A model of altair_nx/draw_altair.py: the four layer builders            *)
(* (draw_networkx_edges, _arrows, _nodes, _labels) and the composition     *)
(* draw_networkx.  Python objects that the code mutates or aliases (the    *)
(* caller's graph, chart layers, composite charts) live in arenas indexed  *)
(* by object identity; every function is an operator from an arena state   *)
(* and its arguments to a new arena state, an exception and a return       *)
(* value.  Floats are modelled as exact extended rationals (n/0 is         *)
(* inf or nan), so rounding is not modelled.                               *)
(***************************************************************************)
EXTENDS Integers, Sequences, FiniteSets, TLC

VARIABLES graphs,   \* arena of networkx graph objects (identity = index)
          layers,   \* arena of alt.Chart objects (single layers)
          charts,   \* arena of alt.LayerChart objects (composites)
          call,     \* the call the caller makes: function name and arguments
          pc,       \* "call" before the call, "done" after it
          result,   \* what the call produced: exception, return value, locals
          held      \* the references the caller holds: its graph, chart, layers

vars == <<graphs, layers, charts, call, pc, result, held>>

---------------------------------------------------------------------------
(* Bounds of the model *)

MaxNodes == 2
MaxEdges == 2
MaxCoord == 2
MaxDim == 2

NodeIds == 1..MaxNodes
Coord == 0..MaxCoord

---------------------------------------------------------------------------
(* Python values: a type tag and a payload *)

None == [ty |-> "NoneType", v |-> "None"]
PyStr(s) == [ty |-> "str", v |-> s]
PyInt(s) == [ty |-> "int", v |-> s]
PyFloat(s) == [ty |-> "float", v |-> s]
PyList(s) == [ty |-> "list", v |-> s]

IsNone(x) == x.ty = "NoneType"
IsStr(x) == x.ty = "str"
IsInt(x) == x.ty = "int"
IsFloatOrInt(x) == x.ty \in {"float", "int"}
IsList(x) == x.ty = "list"
\* Python truthiness of a str-or-None argument (if node_label: ...)
Truthy(x) == ~IsNone(x) /\ x.v # ""

\* dict[k] = v
DictSet(d, k, v) == [x \in DOMAIN d \cup {k} |-> IF x = k THEN v ELSE d[x]]
EmptyDict == [x \in {} |-> None]

---------------------------------------------------------------------------
(* Numbers: non-negative extended rationals <<n, d>>, d = 0 for inf (n > 0)
   and nan (n = 0), as IEEE division produces them *)

RECURSIVE Gcd(_, _)
Gcd(a, b) == IF b = 0 THEN a ELSE Gcd(b, a % b)

Norm(n, d) ==
    IF d = 0 THEN (IF n = 0 THEN <<0, 0>> ELSE <<1, 0>>)
    ELSE LET g == Gcd(n, d) IN <<n \div g, d \div g>>

Rat(n) == <<n, 1>>
RMul(a, b) == Norm(a[1] * b[1], a[2] * b[2])
RDiv(a, b) == Norm(a[1] * b[2], a[2] * b[1])
IsNaN(a) == a = <<0, 0>>
IsInf(a) == a = <<1, 0>>
IsFinite(a) == a[2] # 0
IsZero(a) == a[2] # 0 /\ a[1] = 0
\* IEEE comparisons: anything involving nan is unequal and unordered
REq(a, b) == ~IsNaN(a) /\ ~IsNaN(b) /\ a = b
RNe(a, b) == ~REq(a, b)
RGe(a, b) ==
    /\ ~IsNaN(a) /\ ~IsNaN(b)
    /\ \/ IsInf(a)
       \/ IsFinite(a) /\ IsFinite(b) /\ a[1] * b[2] >= b[1] * a[2]

SetMax(S) == CHOOSE x \in S : \A y \in S : y <= x
SetMin(S) == CHOOSE x \in S : \A y \in S : x <= y

---------------------------------------------------------------------------
(* networkx graphs.  An edge is <<u, v>>; an undirected graph stores each
   edge once, with u <= v.  nattr and eattr give the attribute columns the
   nodes and edges carry and the pandas dtype each column gets. *)

SelfLoopEdges(g) == {e \in g.edges : e[1] = e[2]}

\* nx.isolates: the nodes of degree 0 (a self-loop gives its node degree 2)
Isolates(g) == {n \in g.nodes : ~\E e \in g.edges : e[1] = n \/ e[2] = n}

RemoveEdgesFrom(g, es) == [g EXCEPT !.edges = g.edges \ es]

RemoveNodesFrom(g, ns) ==
    [g EXCEPT !.nodes = g.nodes \ ns,
              !.edges = {e \in g.edges : e[1] \notin ns /\ e[2] \notin ns}]

\* The arena state threaded through the functions
Arena(gs, ls, cs) == [graphs |-> gs, layers |-> ls, charts |-> cs]

\* deepcopy(G): a new graph object with the same value; returns its identity
DeepCopyGraph(H, gref) == [H EXCEPT !.graphs = Append(H.graphs, H.graphs[gref])]

\* G.remove_edges_from(nx.selfloop_edges(G)) on the object G refers to
DropSelfLoops(H, gref) ==
    [H EXCEPT !.graphs[gref] = RemoveEdgesFrom(@, SelfLoopEdges(@))]

\* G.remove_nodes_from(list(nx.isolates(G))) on the object G refers to
DropIsolates(H, gref) ==
    [H EXCEPT !.graphs[gref] = RemoveNodesFrom(@, Isolates(@))]

\* (mutant) the copy is made but G keeps referring to the caller's graph
FilterTargetAliased(H, gref) == gref

\* The object draw_networkx's local G refers to after line 526: the copy
FilterTarget(H, gref) == Len(H.graphs) + 1

\* Lines 525-528 of draw_networkx: the filtered graph's identity and the arena
FilterGraph(H, gref, show_orphans, show_self_loops) ==
    IF ~(show_self_loops /\ show_orphans)
    THEN LET g2 == FilterTarget(H, gref)
             H1 == DeepCopyGraph(H, gref)
             H2 == IF ~show_self_loops THEN DropSelfLoops(H1, g2) ELSE H1
             H3 == IF ~show_orphans THEN DropIsolates(H2, g2) ELSE H2
         IN [H |-> H3, G |-> g2]
    ELSE [H |-> H, G |-> gref]

---------------------------------------------------------------------------
(* Record sets (pandas DataFrames) built by altair_nx/core.py.  A record set
   has a kind, its columns with their dtypes, and its rows keyed by a tuple:
   <<n>> for a node, <<u, v>> for an edge (the 'pair' column).  A row group
   holds the number of rows of that key and the coordinates they are built
   from. *)

NodeBaseCols == [c \in {"node", "x", "y"} |-> IF c = "node" THEN "O" ELSE "float64"]
EdgeBaseCols ==
    [c \in {"edge", "order", "source", "target", "pair", "x", "y"} |->
        IF c \in {"x", "y"} THEN "float64"
        ELSE IF c = "order" THEN "int64" ELSE "O"]

Columns(base, attrs) ==
    [c \in DOMAIN base \cup DOMAIN attrs |->
        IF c \in DOMAIN attrs THEN attrs[c] ELSE base[c]]

\* Number of path points of an edge: N-point ring for a self-loop, two
\* endpoints plus the control points otherwise
PathPoints(e, control_points, loop_n_points) ==
    IF e[1] = e[2] THEN loop_n_points
    ELSE IF IsNone(control_points) THEN 2 ELSE 2 + control_points.v

to_pandas_nodes(g, pos) ==
    [kind |-> "nodes",
     cols |-> Columns(NodeBaseCols, g.nattr),
     rows |-> [k \in {<<n>> : n \in g.nodes} |-> [n |-> 1, xy |-> <<pos[k[1]]>>]]]

to_pandas_edges(g, pos, control_points, loop_n_points) ==
    [kind |-> "edges",
     cols |-> Columns(EdgeBaseCols, g.eattr),
     rows |-> [e \in g.edges |->
                 [n |-> PathPoints(e, control_points, loop_n_points),
                  xy |-> <<pos[e[1]], pos[e[2]]>>]]]

to_pandas_edge_arrows(g, pos, control_points) ==
    [kind |-> "arrows",
     cols |-> Columns(EdgeBaseCols, g.eattr),
     rows |-> [e \in g.edges |-> [n |-> 2, xy |-> <<pos[e[1]], pos[e[2]]>>]]]

\* df.loc[df['pair'].isin(subset)]: the rows whose pair is in the list
IsinPair(df, subset) ==
    [df EXCEPT !.rows = [k \in {x \in DOMAIN df.rows : x \in subset} |-> df.rows[k]]]

\* df.loc[subset]: label lookup in the index, KeyError on a missing label
LocMissing(df, subset) == \E k \in subset : k \notin DOMAIN df.rows
Loc(df, subset) ==
    [df EXCEPT !.rows = [k \in {x \in DOMAIN df.rows : x \in subset} |-> df.rows[k]]]

---------------------------------------------------------------------------
(* Exceptions, chart objects and encodings *)

NoExc == [ty |-> "none", msg |-> ""]
Raise(ty, msg) == [ty |-> ty, msg |-> msg]
Raised(S) == S.exc.ty # "none"
\* Sequencing of statements: F runs on S only if nothing raised before it
Step(S, F(_, _), a) == IF Raised(S) THEN S ELSE F(S, a)

NoSource == "one of G, chart or layer is required to draw."

PyDict(m) == [ty |-> "dict", v |-> m]
\* Python falsiness of the pos argument: None or an empty dict
Falsy(pos) == IsNone(pos) \/ DOMAIN pos.v = {}

\* nx.drawing.layout.kamada_kawai_layout(G): a position for every node of G,
\* as numpy arrays; which positions is the layout's choice (seed)
kamada_kawai_layout(g, seed) == PyDict([n \in g.nodes |-> seed[n]])

\* An alt.Chart object.  by is a ghost field: the function that built it.
NewChart(df) ==
    [data |-> df, mark |-> "none", marker |-> EmptyDict, encoding |-> EmptyDict,
     by |-> "Chart"]

\* A channel of encode(): an alt.X/Y/Size/Color/Shape object or a bare string
Enc(cls, fld, scheme, legend) ==
    [cls |-> cls, field |-> fld, scheme |-> scheme, legend |-> legend]
Shorthand(fld) == Enc("str", fld, "", "")
\* legend = {} if legend else None
LegendArg(legend) == IF legend THEN "{}" ELSE "None"

\* chart.mark_*(**marker_attrs).encode(**encoded_attrs): a new object that
\* shares the data of the one it is called on
Marked(obj, mark, marker, encoding, by) ==
    [data |-> obj.data, mark |-> mark, marker |-> marker, encoding |-> encoding,
     by |-> by]

\* The accumulator of a layer builder: arena, exception, the record set df_*,
\* the chart object *_chart it draws in, and the two attribute dicts
Acc(H, exc, df, obj) ==
    [H |-> H, exc |-> exc, df |-> df, obj |-> obj,
     marker |-> EmptyDict, encoded |-> EmptyDict]
NoDf == [kind |-> "none", cols |-> EmptyDict, rows |-> EmptyDict]

\* chart.layer[i] (0-based i) of composite c: IndexError past the end
HasLayer(H, c, i) == i + 1 <= Len(H.charts[c].layer)
LayerAt(H, c, i) == H.charts[c].layer[i + 1]

\* The position mapping a builder uses for G: pos, or the layout if pos is None
BuilderPos(g, pos, seed) == IF IsNone(pos) THEN kamada_kawai_layout(g, seed) ELSE pos
\* pos[n] for every node of G (KeyError otherwise, inside core.py)
Covers(pos, g) == g.nodes \subseteq DOMAIN pos.v

---------------------------------------------------------------------------
(* draw_networkx_edges *)

\* lines 68-69
EdgeControlPoints(a) ==
    IF a.curved_edges /\ IsNone(a.control_points) THEN [ty |-> "list[tuple]", v |-> 1]
    ELSE IF ~a.curved_edges THEN None
    ELSE a.control_points

\* (mutant) a layer is not accepted as the source
EdgeSourceNoLayer(H, a) ==
    IF a.chart # 0 THEN
        IF HasLayer(H, a.chart, 0)
        THEN Acc(H, NoExc, H.layers[LayerAt(H, a.chart, 0)].data, LayerAt(H, a.chart, 0))
        ELSE Acc(H, Raise("IndexError", "list index out of range"), NoDf, 0)
    ELSE IF a.G # 0 THEN
        LET g == H.graphs[a.G]
            pos == BuilderPos(g, a.pos, a.seed)
        IN IF ~Covers(pos, g) THEN Acc(H, Raise("KeyError", "pos"), NoDf, 0)
           ELSE LET df == to_pandas_edges(g, pos.v, EdgeControlPoints(a), a.loop_n_points)
                IN Acc([H EXCEPT !.layers = Append(@, NewChart(df))],
                       NoExc, df, Len(H.layers) + 1)
    ELSE Acc(H, Raise("ValueError", NoSource), NoDf, 0)

\* lines 71-81
EdgeSource(H, a) ==
    IF a.layer # 0 THEN Acc(H, NoExc, H.layers[a.layer].data, a.layer)
    ELSE IF a.chart # 0 THEN
        IF HasLayer(H, a.chart, 0)
        THEN Acc(H, NoExc, H.layers[LayerAt(H, a.chart, 0)].data, LayerAt(H, a.chart, 0))
        ELSE Acc(H, Raise("IndexError", "list index out of range"), NoDf, 0)
    ELSE IF a.G # 0 THEN
        LET g == H.graphs[a.G]
            pos == BuilderPos(g, a.pos, a.seed)
        IN IF ~Covers(pos, g) THEN Acc(H, Raise("KeyError", "pos"), NoDf, 0)
           ELSE LET df == to_pandas_edges(g, pos.v, EdgeControlPoints(a), a.loop_n_points)
                IN Acc([H EXCEPT !.layers = Append(@, NewChart(df))],
                       NoExc, df, Len(H.layers) + 1)
    ELSE Acc(H, Raise("ValueError", NoSource), NoDf, 0)

\* lines 89-92
EdgeSubset(S, a) ==
    IF IsList(a.subset) THEN
        IF "pair" \notin DOMAIN S.df.cols THEN [S EXCEPT !.exc = Raise("KeyError", "pair")]
        ELSE LET df == IsinPair(S.df, a.subset.v)
             IN [S EXCEPT !.df = df, !.H.layers[S.obj].data = df]
    ELSE IF ~IsNone(a.subset)
    THEN [S EXCEPT !.exc = Raise("TypeError", "subset must be a list or None.")]
    ELSE S

\* lines 94-97
EdgeWidth(S, a) ==
    IF IsStr(a.width)
    THEN [S EXCEPT !.encoded = DictSet(@, "strokeWidth",
                                       Enc("Size", a.width.v, "", LegendArg(a.legend)))]
    ELSE IF IsFloatOrInt(a.width)
    THEN [S EXCEPT !.marker = DictSet(@, "strokeWidth", a.width)]
    ELSE [S EXCEPT !.exc = Raise("TypeError", "width must be a string or int.")]

\* lines 99-107
EdgeColour(S, a) ==
    IF ~IsStr(a.colour)
    THEN [S EXCEPT !.exc = Raise("TypeError", "colour must be a string")]
    ELSE IF a.colour.v \in DOMAIN S.df.cols THEN
        IF IsNone(a.cmap)
        THEN [S EXCEPT !.encoded = DictSet(@, "color",
                                           Enc("Color", a.colour.v, "", LegendArg(a.legend)))]
        ELSE IF IsStr(a.cmap) THEN
            IF S.df.cols[a.colour.v] = "O"
            THEN [S EXCEPT !.exc = Raise("TypeError", "the edge attribute is non-numeric.")]
            ELSE [S EXCEPT !.encoded = DictSet(@, "color",
                                  Enc("Color", a.colour.v, a.cmap.v, LegendArg(a.legend)))]
        ELSE [S EXCEPT !.exc = Raise("TypeError", "cmap must be a string or None.")]
    ELSE [S EXCEPT !.marker = DictSet(@, "color", a.colour)]

\* lines 109-112
EdgeAlpha(S, a) ==
    IF IsStr(a.alpha) THEN [S EXCEPT !.encoded = DictSet(@, "opacity", Shorthand(a.alpha.v))]
    ELSE IF IsFloatOrInt(a.alpha) THEN [S EXCEPT !.marker = DictSet(@, "opacity", a.alpha)]
    ELSE IF ~IsNone(a.alpha)
    THEN [S EXCEPT !.exc = Raise("TypeError", "alpha must be a string or None.")]
    ELSE S

\* lines 114-117
EdgeInterpolation(S, a) ==
    IF a.curved_edges THEN
        IF IsStr(a.interpolation)
        THEN [S EXCEPT !.marker = DictSet(@, "interpolate", a.interpolation)]
        ELSE [S EXCEPT !.exc = Raise("TypeError", "interpolate must be a string.")]
    ELSE S

\* lines 119-120
EdgeTooltip(S, a) ==
    IF ~IsNone(a.tooltip)
    THEN [S EXCEPT !.encoded = DictSet(@, "tooltip", Shorthand(a.tooltip.v))]
    ELSE S

\* lines 125-129: the encodings every edge layer gets (x, y, detail, order)
EdgeEncoding(encoded) ==
    [c \in {"x", "y", "detail", "order"} \cup DOMAIN encoded |->
        IF c \in DOMAIN encoded THEN encoded[c]
        ELSE IF c = "x" THEN Enc("X", "x", "", "")
        ELSE IF c = "y" THEN Enc("Y", "y", "", "")
        ELSE IF c = "detail" THEN Shorthand("edge")
        ELSE Shorthand("order")]

\* The result of a builder: the arena, the exception, the returned object
Outcome(H, exc, ret) == [H |-> H, exc |-> exc, ret |-> ret]
\* The same with the locals a result reports: the columns of the record set
Built(O, cols) == [H |-> O.H, exc |-> O.exc, ret |-> O.ret, loc |-> [cols |-> cols]]

\* lines 125-133: build the layer, replace layer 0 of a given chart, return
EdgeConstruct(S, a) ==
    LET new == Marked(S.H.layers[S.obj], "line", S.marker, EdgeEncoding(S.encoded),
                      "draw_networkx_edges")
        id == Len(S.H.layers) + 1
        H1 == [S.H EXCEPT !.layers = Append(@, new)]
    IN IF a.chart = 0 THEN Outcome(H1, NoExc, id)
       ELSE IF ~HasLayer(H1, a.chart, 0)
       THEN Outcome(H1, Raise("IndexError", "list assignment index out of range"), 0)
       ELSE Outcome([H1 EXCEPT !.charts[a.chart].layer[1] = id], NoExc, id)

\* the statements after the source, in order, then the construction
EdgeFinish(S, a) ==
    Built(IF Raised(S) THEN Outcome(S.H, S.exc, 0) ELSE EdgeConstruct(S, a), S.df.cols)

draw_networkx_edges(H, a) ==
    LET S0 == EdgeSource(H, a)
        S1 == Step(S0, EdgeSubset, a)
        S2 == Step(S1, EdgeWidth, a)
        S3 == Step(S2, EdgeColour, a)
        S4 == Step(S3, EdgeAlpha, a)
        S5 == Step(S4, EdgeInterpolation, a)
        S6 == Step(S5, EdgeTooltip, a)
    IN EdgeFinish(S6, a)

---------------------------------------------------------------------------
(* draw_networkx_arrows *)

\* lines 173-174
ArrowControlPoints(a) ==
    IF a.curved_edges /\ IsNone(a.control_points) THEN [ty |-> "list[tuple]", v |-> 1]
    ELSE IF ~a.curved_edges THEN None
    ELSE a.control_points

\* lines 176-186
ArrowSource(H, a) ==
    IF a.layer # 0 THEN Acc(H, NoExc, H.layers[a.layer].data, a.layer)
    ELSE IF a.chart # 0 THEN
        IF HasLayer(H, a.chart, 0)
        THEN Acc(H, NoExc, H.layers[LayerAt(H, a.chart, 0)].data, LayerAt(H, a.chart, 0))
        ELSE Acc(H, Raise("IndexError", "list index out of range"), NoDf, 0)
    ELSE IF a.G # 0 THEN
        LET g == H.graphs[a.G]
            pos == BuilderPos(g, a.pos, a.seed)
        IN IF ~Covers(pos, g) THEN Acc(H, Raise("KeyError", "pos"), NoDf, 0)
           ELSE LET df == to_pandas_edge_arrows(g, pos.v, ArrowControlPoints(a))
                IN Acc([H EXCEPT !.layers = Append(@, NewChart(df))],
                       NoExc, df, Len(H.layers) + 1)
    ELSE Acc(H, Raise("ValueError", NoSource), NoDf, 0)

\* lines 194-197
ArrowSubset(S, a) ==
    IF IsList(a.subset) THEN
        IF "pair" \notin DOMAIN S.df.cols THEN [S EXCEPT !.exc = Raise("KeyError", "pair")]
        ELSE LET df == IsinPair(S.df, a.subset.v)
             IN [S EXCEPT !.df = df, !.H.layers[S.obj].data = df]
    ELSE IF ~IsNone(a.subset)
    THEN [S EXCEPT !.exc = Raise("TypeError", "subset must be a list or None.")]
    ELSE S

\* lines 199-202
ArrowWidth(S, a) ==
    IF IsStr(a.width)
    THEN [S EXCEPT !.encoded = DictSet(@, "size",
                                       Enc("Size", a.width.v, "", LegendArg(a.legend)))]
    ELSE IF IsFloatOrInt(a.width)
    THEN [S EXCEPT !.marker = DictSet(@, "strokeWidth", a.width)]
    ELSE [S EXCEPT !.exc = Raise("TypeError", "arrow_width must be a string or int.")]

\* lines 204-212
ArrowColour(S, a) ==
    IF ~IsStr(a.colour)
    THEN [S EXCEPT !.exc = Raise("TypeError", "colour must be a string")]
    ELSE IF a.colour.v \in DOMAIN S.df.cols THEN
        IF IsNone(a.cmap)
        THEN [S EXCEPT !.encoded = DictSet(@, "color",
                                           Enc("Color", a.colour.v, "", LegendArg(a.legend)))]
        ELSE IF IsStr(a.cmap) THEN
            IF S.df.cols[a.colour.v] = "O"
            THEN [S EXCEPT !.exc = Raise("TypeError", "the edge attribute is non-numeric.")]
            ELSE [S EXCEPT !.encoded = DictSet(@, "color",
                                  Enc("Color", a.colour.v, a.cmap.v, LegendArg(a.legend)))]
        ELSE [S EXCEPT !.exc = Raise("TypeError", "cmap must be a string or None.")]
    ELSE [S EXCEPT !.marker = DictSet(@, "color", a.colour)]

\* lines 214-217
ArrowAlpha(S, a) ==
    IF IsStr(a.alpha) THEN [S EXCEPT !.encoded = DictSet(@, "opacity", Shorthand(a.alpha.v))]
    ELSE IF IsFloatOrInt(a.alpha) THEN [S EXCEPT !.marker = DictSet(@, "opacity", a.alpha)]
    ELSE IF ~IsNone(a.alpha)
    THEN [S EXCEPT !.exc = Raise("TypeError", "alpha must be a string or None.")]
    ELSE S

\* lines 219-220
ArrowTooltip(S, a) ==
    IF ~IsNone(a.tooltip)
    THEN [S EXCEPT !.encoded = DictSet(@, "tooltip", Shorthand(a.tooltip.v))]
    ELSE S

\* lines 225-229: the encodings every arrow layer gets (x, y, detail)
ArrowEncoding(encoded) ==
    [c \in {"x", "y", "detail"} \cup DOMAIN encoded |->
        IF c \in DOMAIN encoded THEN encoded[c]
        ELSE IF c = "x" THEN Enc("X", "x", "", "")
        ELSE IF c = "y" THEN Enc("Y", "y", "", "")
        ELSE Shorthand("edge")]

\* lines 225-233: build the layer, replace layer 0 of a given chart, return
ArrowConstruct(S, a) ==
    LET new == Marked(S.H.layers[S.obj], "line", S.marker, ArrowEncoding(S.encoded),
                      "draw_networkx_arrows")
        id == Len(S.H.layers) + 1
        H1 == [S.H EXCEPT !.layers = Append(@, new)]
    IN IF a.chart = 0 THEN Outcome(H1, NoExc, id)
       ELSE IF ~HasLayer(H1, a.chart, 0)
       THEN Outcome(H1, Raise("IndexError", "list assignment index out of range"), 0)
       ELSE Outcome([H1 EXCEPT !.charts[a.chart].layer[1] = id], NoExc, id)

\* the statements after the source, in order, then the construction
ArrowFinish(S, a) ==
    Built(IF Raised(S) THEN Outcome(S.H, S.exc, 0) ELSE ArrowConstruct(S, a), S.df.cols)

draw_networkx_arrows(H, a) ==
    LET S0 == ArrowSource(H, a)
        S1 == Step(S0, ArrowSubset, a)
        S2 == Step(S1, ArrowWidth, a)
        S3 == Step(S2, ArrowColour, a)
        S4 == Step(S3, ArrowAlpha, a)
        S5 == Step(S4, ArrowTooltip, a)
    IN ArrowFinish(S5, a)

---------------------------------------------------------------------------
(* draw_networkx_nodes *)

\* lines 271-281
NodeSource(H, a) ==
    IF a.layer # 0 THEN Acc(H, NoExc, H.layers[a.layer].data, a.layer)
    ELSE IF a.chart # 0 THEN
        IF HasLayer(H, a.chart, 1)
        THEN Acc(H, NoExc, H.layers[LayerAt(H, a.chart, 1)].data, LayerAt(H, a.chart, 1))
        ELSE Acc(H, Raise("IndexError", "list index out of range"), NoDf, 0)
    ELSE IF a.G # 0 THEN
        LET g == H.graphs[a.G]
            pos == BuilderPos(g, a.pos, a.seed)
        IN IF ~Covers(pos, g) THEN Acc(H, Raise("KeyError", "pos"), NoDf, 0)
           ELSE LET df == to_pandas_nodes(g, pos.v)
                IN Acc([H EXCEPT !.layers = Append(@, NewChart(df))],
                       NoExc, df, Len(H.layers) + 1)
    ELSE Acc(H, Raise("ValueError", NoSource), NoDf, 0)

\* lines 289-292
NodeSubset(S, a) ==
    IF IsList(a.subset) THEN
        IF LocMissing(S.df, a.subset.v) THEN [S EXCEPT !.exc = Raise("KeyError", "not in index")]
        ELSE LET df == Loc(S.df, a.subset.v)
             IN [S EXCEPT !.df = df, !.H.layers[S.obj].data = df]
    ELSE IF ~IsNone(a.subset)
    THEN [S EXCEPT !.exc = Raise("TypeError", "node_subset must be a list or None.")]
    ELSE S

\* lines 294-297
NodeSize(S, a) ==
    IF IsStr(a.size)
    THEN [S EXCEPT !.encoded = DictSet(@, "size",
                                       Enc("Size", a.size.v, "", LegendArg(a.legend)))]
    ELSE IF IsInt(a.size) THEN [S EXCEPT !.marker = DictSet(@, "size", a.size)]
    ELSE [S EXCEPT !.exc = Raise("TypeError", "node_size must be a string or int.")]

\* lines 299-302
NodeOutlineWidth(S, a) ==
    IF IsStr(a.outline_width)
    THEN [S EXCEPT !.encoded = DictSet(@, "strokeWidth",
                                Enc("Size", a.outline_width.v, "", LegendArg(a.legend)))]
    ELSE IF IsFloatOrInt(a.outline_width)
    THEN [S EXCEPT !.marker = DictSet(@, "strokeWidth", a.outline_width)]
    ELSE [S EXCEPT !.exc = Raise("TypeError", "linewidths must be a string or int.")]

\* lines 304-307
NodeShape(S, a) ==
    IF ~IsStr(a.shape) THEN [S EXCEPT !.exc = Raise("TypeError", "shape must be a string")]
    ELSE IF a.shape.v \in DOMAIN S.df.cols
    THEN [S EXCEPT !.encoded = DictSet(@, "shape",
                                       Enc("Shape", a.shape.v, "", LegendArg(a.legend)))]
    ELSE [S EXCEPT !.marker = DictSet(@, "shape", a.shape)]

\* lines 309-312
NodeColour(S, a) ==
    IF ~IsStr(a.colour)
    THEN [S EXCEPT !.exc = Raise("TypeError", "node_colour must be a string.")]
    ELSE IF a.colour.v \in DOMAIN S.df.cols
    THEN [S EXCEPT !.encoded = DictSet(@, "fill", Shorthand(a.colour.v))]
    ELSE [S EXCEPT !.marker = DictSet(@, "fill", a.colour)]

\* lines 314-317
NodeAlpha(S, a) ==
    IF IsStr(a.alpha) THEN [S EXCEPT !.encoded = DictSet(@, "opacity", Shorthand(a.alpha.v))]
    ELSE IF IsFloatOrInt(a.alpha) THEN [S EXCEPT !.marker = DictSet(@, "opacity", a.alpha)]
    ELSE IF ~IsNone(a.alpha)
    THEN [S EXCEPT !.exc = Raise("TypeError", "alpha must be a string or None.")]
    ELSE S

\* lines 319-322
NodeCmap(S, a) ==
    IF IsStr(a.cmap)
    THEN [S EXCEPT !.encoded = DictSet(@, "fill", Enc("Color", a.colour.v, a.cmap.v, ""))]
    ELSE IF ~IsNone(a.cmap)
    THEN [S EXCEPT !.exc = Raise("TypeError", "cmap must be a string or None.")]
    ELSE S

\* lines 324-325
NodeTooltip(S, a) ==
    IF ~IsNone(a.tooltip)
    THEN [S EXCEPT !.encoded = DictSet(@, "tooltip", Shorthand(a.tooltip.v))]
    ELSE S

\* lines 330-334 and 406-410: the encodings every node or label layer gets
PointEncoding(encoded) ==
    [c \in {"x", "y"} \cup DOMAIN encoded |->
        IF c \in DOMAIN encoded THEN encoded[c]
        ELSE IF c = "x" THEN Enc("X", "x", "", "") ELSE Enc("Y", "y", "", "")]

\* lines 330-338: build the layer, replace layer 1 of a given chart, return
NodeConstruct(S, a) ==
    LET new == Marked(S.H.layers[S.obj], "point", S.marker, PointEncoding(S.encoded),
                      "draw_networkx_nodes")
        id == Len(S.H.layers) + 1
        H1 == [S.H EXCEPT !.layers = Append(@, new)]
    IN IF a.chart = 0 THEN Outcome(H1, NoExc, id)
       ELSE IF ~HasLayer(H1, a.chart, 1)
       THEN Outcome(H1, Raise("IndexError", "list assignment index out of range"), 0)
       ELSE Outcome([H1 EXCEPT !.charts[a.chart].layer[2] = id], NoExc, id)

\* the statements after the source, in order, then the construction
NodeFinish(S, a) ==
    Built(IF Raised(S) THEN Outcome(S.H, S.exc, 0) ELSE NodeConstruct(S, a), S.df.cols)

draw_networkx_nodes(H, a) ==
    LET S0 == NodeSource(H, a)
        S1 == Step(S0, NodeSubset, a)
        S2 == Step(S1, NodeSize, a)
        S3 == Step(S2, NodeOutlineWidth, a)
        S4 == Step(S3, NodeShape, a)
        S5 == Step(S4, NodeColour, a)
        S6 == Step(S5, NodeAlpha, a)
        S7 == Step(S6, NodeCmap, a)
        S8 == Step(S7, NodeTooltip, a)
    IN NodeFinish(S8, a)

---------------------------------------------------------------------------
(* draw_networkx_labels *)

\* lines 366-376
LabelSource(H, a) ==
    IF a.layer # 0 THEN Acc(H, NoExc, H.layers[a.layer].data, a.layer)
    ELSE IF a.chart # 0 THEN
        IF HasLayer(H, a.chart, 1)
        THEN Acc(H, NoExc, H.layers[LayerAt(H, a.chart, 1)].data, LayerAt(H, a.chart, 1))
        ELSE Acc(H, Raise("IndexError", "list index out of range"), NoDf, 0)
    ELSE IF a.G # 0 THEN
        LET g == H.graphs[a.G]
            pos == BuilderPos(g, a.pos, a.seed)
        IN IF ~Covers(pos, g) THEN Acc(H, Raise("KeyError", "pos"), NoDf, 0)
           ELSE LET df == to_pandas_nodes(g, pos.v)
                IN Acc([H EXCEPT !.layers = Append(@, NewChart(df))],
                       NoExc, df, Len(H.layers) + 1)
    ELSE Acc(H, Raise("ValueError", NoSource), NoDf, 0)

\* lines 383-386
LabelSubset(S, a) ==
    IF IsList(a.subset) THEN
        IF LocMissing(S.df, a.subset.v) THEN [S EXCEPT !.exc = Raise("KeyError", "not in index")]
        ELSE LET df == Loc(S.df, a.subset.v)
             IN [S EXCEPT !.df = df, !.H.layers[S.obj].data = df]
    ELSE IF ~IsNone(a.subset)
    THEN [S EXCEPT !.exc = Raise("TypeError", "node_subset must be a list or None.")]
    ELSE S

\* lines 388-391
LabelText(S, a) ==
    IF ~IsStr(a.label) THEN [S EXCEPT !.exc = Raise("TypeError", "label must be a string.")]
    ELSE IF a.label.v \in DOMAIN S.df.cols
    THEN [S EXCEPT !.encoded = DictSet(@, "text", Shorthand(a.label.v))]
    ELSE [S EXCEPT !.marker = DictSet(@, "text", a.label)]

\* lines 393-396
LabelFontSize(S, a) ==
    IF IsStr(a.font_size)
    THEN [S EXCEPT !.encoded = DictSet(@, "size", Enc("Size", a.font_size.v, "", "None"))]
    ELSE IF IsInt(a.font_size) THEN [S EXCEPT !.marker = DictSet(@, "size", a.font_size)]
    ELSE [S EXCEPT !.exc = Raise("TypeError", "font_size must be a string or int.")]

\* (mutant) the font colour is never looked up among the columns
LabelFontColourFixed(S, a) ==
    IF ~IsStr(a.font_colour)
    THEN [S EXCEPT !.exc = Raise("TypeError", "font_color must be a string.")]
    ELSE [S EXCEPT !.marker = DictSet(@, "fill", a.font_colour)]

\* lines 398-401
LabelFontColour(S, a) ==
    IF ~IsStr(a.font_colour)
    THEN [S EXCEPT !.exc = Raise("TypeError", "font_color must be a string.")]
    ELSE IF a.font_colour.v \in DOMAIN S.df.cols
    THEN [S EXCEPT !.encoded = DictSet(@, "fill", Shorthand(a.font_colour.v))]
    ELSE [S EXCEPT !.marker = DictSet(@, "fill", a.font_colour)]

\* lines 406-414: build the layer, replace layer 1 of a given chart, return
LabelConstruct(S, a) ==
    LET new == Marked(S.H.layers[S.obj], "text",
                      DictSet(S.marker, "baseline", PyStr("middle")),
                      PointEncoding(S.encoded), "draw_networkx_labels")
        id == Len(S.H.layers) + 1
        H1 == [S.H EXCEPT !.layers = Append(@, new)]
    IN IF a.chart = 0 THEN Outcome(H1, NoExc, id)
       ELSE IF ~HasLayer(H1, a.chart, 1)
       THEN Outcome(H1, Raise("IndexError", "list assignment index out of range"), 0)
       ELSE Outcome([H1 EXCEPT !.charts[a.chart].layer[2] = id], NoExc, id)

\* the statements after the source, in order, then the construction
LabelFinish(S, a) ==
    Built(IF Raised(S) THEN Outcome(S.H, S.exc, 0) ELSE LabelConstruct(S, a), S.df.cols)

draw_networkx_labels(H, a) ==
    LET S0 == LabelSource(H, a)
        S1 == Step(S0, LabelSubset, a)
        S2 == Step(S1, LabelText, a)
        S3 == Step(S2, LabelFontSize, a)
        S4 == Step(S3, LabelFontColour, a)
    IN LabelFinish(S4, a)

---------------------------------------------------------------------------
(* draw_networkx *)

\* A division as the interpreter performs it: Python floats raise
\* ZeroDivisionError on a zero divisor, numpy floats give inf or nan
DivRaises(floats, b) == floats = "float" /\ IsZero(b)

\* line 530: the positions used, and the float type their coordinates have
UsedPos(g, a) == IF Falsy(a.pos) THEN kamada_kawai_layout(g, a.seed) ELSE a.pos
UsedFloats(a) == IF Falsy(a.pos) THEN "numpy.float64" ELSE a.floats

\* lines 537-538
XRange(m) == LET xs == {m[n][1] : n \in DOMAIN m} IN Rat(SetMax(xs) - SetMin(xs))
YRange(m) == LET ys == {m[n][2] : n \in DOMAIN m} IN Rat(SetMax(ys) - SetMin(ys))

\* lines 539-540: the chart size, one side derived from the other if None
ResolveSize(a, xr, yr, floats) ==
    IF IsNone(a.chart_width) THEN
        IF DivRaises(floats, yr)
        THEN [exc |-> Raise("ZeroDivisionError", "float division by zero"),
              w |-> Rat(0), h |-> Rat(0)]
        ELSE [exc |-> NoExc, w |-> RDiv(RMul(a.chart_height.v, xr), yr),
              h |-> a.chart_height.v]
    ELSE IF IsNone(a.chart_height) THEN
        IF DivRaises(floats, xr)
        THEN [exc |-> Raise("ZeroDivisionError", "float division by zero"),
              w |-> Rat(0), h |-> Rat(0)]
        ELSE [exc |-> NoExc, w |-> a.chart_width.v,
              h |-> RDiv(RMul(a.chart_width.v, yr), xr)]
    ELSE [exc |-> NoExc, w |-> a.chart_width.v, h |-> a.chart_height.v]

\* line 543: each axis scaled to [0, 1]
UnitScale(m, xr, yr) ==
    LET minx == SetMin({m[n][1] : n \in DOMAIN m})
        miny == SetMin({m[n][2] : n \in DOMAIN m})
    IN [n \in DOMAIN m |->
          <<IF IsZero(xr) THEN Rat(0) ELSE RDiv(Rat(m[n][1] - minx), xr),
            IF IsZero(yr) THEN Rat(0) ELSE RDiv(Rat(m[n][2] - miny), yr)>>]

\* lines 544-545: the axis of the larger chart side is stretched
StretchRaises(w, h, floats) ==
    RNe(w, h) /\ DivRaises(floats, IF RGe(w, h) THEN h ELSE w)
\* (mutant) the axis of the smaller chart side is stretched instead
StretchOtherAxis(m, w, h) ==
    IF RNe(w, h)
    THEN [n \in DOMAIN m |->
            IF RGe(w, h) THEN <<m[n][1], RDiv(RMul(m[n][2], w), h)>>
            ELSE <<RDiv(RMul(m[n][1], h), w), m[n][2]>>]
    ELSE m

Stretch(m, w, h) ==
    IF RNe(w, h)
    THEN [n \in DOMAIN m |->
            IF RGe(w, h) THEN <<RDiv(RMul(m[n][1], w), h), m[n][2]>>
            ELSE <<m[n][1], RDiv(RMul(m[n][2], h), w)>>]
    ELSE m

\* The locals of draw_networkx a result reports
Locals(G, raw, xr, yr, w, h, pos) ==
    [G |-> G, pos_raw |-> raw, x_range |-> xr, y_range |-> yr,
     chart_width |-> w, chart_height |-> h, pos |-> pos]
NoLocals == Locals(0, EmptyDict, Rat(0), Rat(0), Rat(0), Rat(0), EmptyDict)
Result(H, exc, ret, loc) == [H |-> H, exc |-> exc, ret |-> ret, loc |-> loc]

\* lines 552-556, 560-564, 568-571, 575-576: the arguments of the four calls
EdgeArgs(a, G, pos) ==
    [G |-> G, pos |-> PyDict(pos), seed |-> a.seed, chart |-> a.chart, layer |-> 0,
     subset |-> a.edge_subset, width |-> a.edge_width, colour |-> a.edge_colour,
     cmap |-> a.edge_cmap, alpha |-> a.edge_alpha, tooltip |-> a.edge_tooltip,
     legend |-> a.edge_legend, loop_n_points |-> a.loop_n_points,
     curved_edges |-> a.curved_edges, control_points |-> a.edge_control_points,
     interpolation |-> a.edge_interpolation]
ArrowArgs(a, G, pos) ==
    [G |-> G, pos |-> PyDict(pos), seed |-> a.seed, chart |-> a.chart, layer |-> 0,
     subset |-> a.edge_subset, width |-> a.arrow_width, colour |-> a.arrow_colour,
     cmap |-> a.arrow_cmap, alpha |-> a.arrow_alpha, tooltip |-> a.edge_tooltip,
     legend |-> a.arrow_legend, curved_edges |-> a.curved_edges,
     control_points |-> a.edge_control_points]
NodeArgs(a, G, pos) ==
    [G |-> G, pos |-> PyDict(pos), seed |-> a.seed, chart |-> a.chart, layer |-> 0,
     subset |-> a.node_subset, size |-> a.node_size,
     outline_width |-> a.node_outline_width, shape |-> a.node_shape,
     colour |-> a.node_colour, cmap |-> a.node_cmap, alpha |-> a.node_alpha,
     tooltip |-> a.node_tooltip, legend |-> a.node_legend]
LabelArgs(a, G, pos) ==
    [G |-> G, pos |-> PyDict(pos), seed |-> a.seed, chart |-> a.chart, layer |-> 0,
     subset |-> a.node_subset, label |-> a.node_label,
     font_size |-> a.node_font_size, font_colour |-> a.node_font_colour]

\* The conditions under which each layer is built and stacked
\* (lines 551, 559, 567, 574 and again 580, 582, 584, 586)
WantEdges(g) == Cardinality(g.edges) # 0
WantArrows(g) == WantEdges(g) /\ g.directed
WantNodes(g) == Cardinality(g.nodes) # 0
\* (mutant) labels are drawn for any node_label that is not None
WantLabelsNotNone(g, a) == WantNodes(g) /\ ~IsNone(a.node_label)
WantLabels(g, a) == WantNodes(g) /\ Truthy(a.node_label)

\* lines 550-576: the layers, built in the order edges, arrows, nodes, labels;
\* the first exception ends the call.  B holds the arena, the exception and
\* the four layer variables; x holds a, G and pos
NoLayers(H) ==
    [H |-> H, exc |-> NoExc, edges |-> 0, arrows |-> 0, nodes |-> 0, labels |-> 0]
Assign(B, k, O) == [B EXCEPT !.H = O.H, !.exc = O.exc, ![k] = O.ret]
BuildEdges(B, x) ==
    IF WantEdges(B.H.graphs[x.G])
    THEN Assign(B, "edges", draw_networkx_edges(B.H, EdgeArgs(x.a, x.G, x.pos)))
    ELSE B
BuildArrows(B, x) ==
    IF WantArrows(B.H.graphs[x.G])
    THEN Assign(B, "arrows", draw_networkx_arrows(B.H, ArrowArgs(x.a, x.G, x.pos)))
    ELSE B
BuildNodes(B, x) ==
    IF WantNodes(B.H.graphs[x.G])
    THEN Assign(B, "nodes", draw_networkx_nodes(B.H, NodeArgs(x.a, x.G, x.pos)))
    ELSE B
BuildLabels(B, x) ==
    IF WantLabels(B.H.graphs[x.G], x.a)
    THEN Assign(B, "labels", draw_networkx_labels(B.H, LabelArgs(x.a, x.G, x.pos)))
    ELSE B
BuildLayers(H, a, G, pos) ==
    LET x  == [a |-> a, G |-> G, pos |-> pos]
        B1 == BuildEdges(NoLayers(H), x)
        B2 == Step(B1, BuildArrows, x)
        B3 == Step(B2, BuildNodes, x)
    IN Step(B3, BuildLabels, x)

\* (mutant) the node layers are stacked under the edge layers
VizNodesFirst(g, a, B) ==
    (IF WantNodes(g) THEN <<B.nodes>> ELSE <<>>)
    \o (IF WantLabels(g, a) THEN <<B.labels>> ELSE <<>>)
    \o (IF WantEdges(g) THEN <<B.edges>> ELSE <<>>)
    \o (IF WantArrows(g) THEN <<B.arrows>> ELSE <<>>)

\* lines 578-586: the list viz
Viz(g, a, B) ==
    (IF WantEdges(g) THEN <<B.edges>> ELSE <<>>)
    \o (IF WantArrows(g) THEN <<B.arrows>> ELSE <<>>)
    \o (IF WantNodes(g) THEN <<B.nodes>> ELSE <<>>)
    \o (IF WantLabels(g, a) THEN <<B.labels>> ELSE <<>>)

\* (mutant) an empty list of layers is composed like any other
VizNeverEmpty(viz) == FALSE

\* line 588: if viz: ... else: raise ValueError
VizEmpty(viz) == viz = <<>>

\* lines 588-591: alt.layer(*viz).properties(width, height), a new composite
Compose(H, viz, w, h) ==
    [H EXCEPT !.charts = Append(@, [layer |-> viz, width |-> w, height |-> h])]

\* lines 578-591: the layers built are stacked, or the call fails
Stack(B, a, G, w, h, loc) ==
    IF Raised(B) THEN Result(B.H, B.exc, 0, loc)
    ELSE IF VizEmpty(Viz(B.H.graphs[G], a, B))
    THEN Result(B.H, Raise("ValueError", "G does not contain any nodes or edges."), 0, loc)
    ELSE Result(Compose(B.H, Viz(B.H.graphs[G], a, B), w, h), NoExc,
                Len(B.H.charts) + 1, loc)

\* lines 543-591, once the chart size sz is resolved
Scaled(H, a, G, floats, sz, unit, loc) ==
    IF Raised(sz) THEN Result(H, sz.exc, 0, loc)
    ELSE IF StretchRaises(sz.w, sz.h, floats)
    THEN Result(H, Raise("ZeroDivisionError", "float division by zero"), 0,
                [loc EXCEPT !.pos = unit])
    ELSE Stack(BuildLayers(H, a, G, Stretch(unit, sz.w, sz.h)), a, G, sz.w, sz.h,
               [loc EXCEPT !.pos = Stretch(unit, sz.w, sz.h)])

\* lines 539-591, once the ranges xr and yr are known
Ranged(H, a, G, P, floats, xr, yr, sz) ==
    Scaled(H, a, G, floats, sz, UnitScale(P.v, xr, yr),
           Locals(G, P.v, xr, yr, sz.w, sz.h, EmptyDict))

\* lines 537-591, once G is filtered and pos is a non-empty mapping
ScaleAndDraw(H, a, G, P, floats) ==
    Ranged(H, a, G, P, floats, XRange(P.v), YRange(P.v),
           ResolveSize(a, XRange(P.v), YRange(P.v), floats))

BothNone == "chart_width and chart_height cannot both be None"

\* (mutant) a missing side is an error even when the other is given
DrawnEitherNone(F, a, P) ==
    IF IsNone(a.chart_width) \/ IsNone(a.chart_height)
    THEN Result(F.H, Raise("ValueError", BothNone), 0, [NoLocals EXCEPT !.G = F.G])
    ELSE IF DOMAIN P.v = {}
    THEN Result(F.H, Raise("ValueError", "not enough values to unpack"), 0,
                [NoLocals EXCEPT !.G = F.G])
    ELSE ScaleAndDraw(F.H, a, F.G, P, UsedFloats(a))

\* lines 530-591, once G is filtered (F: the arena and the object G names)
Drawn(F, a, P) ==
    IF IsNone(a.chart_width) /\ IsNone(a.chart_height)
    THEN Result(F.H, Raise("ValueError", BothNone), 0, [NoLocals EXCEPT !.G = F.G])
    ELSE IF DOMAIN P.v = {}
    THEN Result(F.H, Raise("ValueError", "not enough values to unpack"), 0,
                [NoLocals EXCEPT !.G = F.G])
    ELSE ScaleAndDraw(F.H, a, F.G, P, UsedFloats(a))

Positioned(F, a) == Drawn(F, a, UsedPos(F.H.graphs[F.G], a))

\* G refers to a graph object (the caller passes one)
draw_networkx(H, a) ==
    Positioned(FilterGraph(H, a.G, a.show_orphans, a.show_self_loops), a)

---------------------------------------------------------------------------
(* The caller: the graphs it may hold, the defaults of the signatures, and
   the arguments it may pass *)

NodeAttrs == [c \in {"score", "group"} |-> IF c = "score" THEN "float64" ELSE "O"]
EdgeAttrs == [c \in {"weight", "kind"} |-> IF c = "weight" THEN "float64" ELSE "O"]

Pairs(ns, directed) ==
    IF directed THEN ns \X ns ELSE {p \in ns \X ns : p[1] <= p[2]}

Graphs ==
    UNION {{[nodes |-> q[1], edges |-> es, directed |-> q[2],
             nattr |-> NodeAttrs, eattr |-> EdgeAttrs] :
               es \in {x \in SUBSET Pairs(q[1], q[2]) : Cardinality(x) <= MaxEdges}} :
           q \in (SUBSET NodeIds) \X BOOLEAN}

\* A value of no accepted type, for any styling parameter
Bad == [ty |-> "object", v |-> "object()"]

DefaultChartWidth == 500
DefaultChartHeight == 300
DefaultLoopNPoints == 30
Dim(k) == [ty |-> "float", v |-> Rat(k)]

\* The layout used when nothing else is said: distinct points of a grid
GridSeed ==
    [n \in NodeIds |-> <<n % (MaxCoord + 1), (n \div (MaxCoord + 1)) % (MaxCoord + 1)>>]

\* draw_networkx(G) with every other parameter at its default (lines 418-426)
NetworkxDefaults ==
    [G |-> 1, pos |-> None, seed |-> GridSeed, floats |-> "numpy.float64", chart |-> 0,
     node_subset |-> None, edge_subset |-> None,
     show_orphans |-> TRUE, show_self_loops |-> TRUE,
     node_size |-> PyInt("400"), node_outline_width |-> PyFloat("1.0"),
     node_shape |-> PyStr("circle"), node_colour |-> PyStr("teal"), node_cmap |-> None,
     node_alpha |-> PyFloat("1.0"), node_label |-> None, node_font_size |-> PyInt("15"),
     node_font_colour |-> PyStr("black"), node_tooltip |-> None, node_legend |-> FALSE,
     edge_width |-> PyInt("1"), edge_colour |-> PyStr("grey"), edge_cmap |-> None,
     edge_alpha |-> PyFloat("1.0"), edge_tooltip |-> None, edge_legend |-> FALSE,
     loop_n_points |-> DefaultLoopNPoints, curved_edges |-> FALSE,
     edge_control_points |-> None, edge_interpolation |-> PyStr("basis"),
     arrow_width |-> PyInt("2"), arrow_colour |-> PyStr("black"), arrow_cmap |-> None,
     arrow_alpha |-> PyFloat("1.0"), arrow_legend |-> FALSE,
     chart_width |-> Dim(DefaultChartWidth), chart_height |-> Dim(DefaultChartHeight)]

\* The caller holds nothing but its graph
HoldsGraph == [G |-> 1, chart |-> 0]

\* What the caller holds after an earlier draw_networkx(G): the composite, if
\* that call returned one
Holding(R) == [H |-> R.H, held |-> [G |-> 1, chart |-> R.ret]]
Earlier(H) == Holding(draw_networkx(H, NetworkxDefaults))

\* Calls that exercise filtering and layering: any graph, the default size
StructureCalls(H, hd) ==
    {[NetworkxDefaults EXCEPT !.chart = c, !.show_orphans = so, !.show_self_loops = sl,
                              !.pos = p, !.node_label = lb] :
        c \in {0, hd.chart}, so \in BOOLEAN, sl \in BOOLEAN,
        p \in {None, PyDict(EmptyDict), PyDict([n \in H.graphs[1].nodes |-> GridSeed[n]])},
        lb \in {None, PyStr(""), PyStr("node")}}

\* Calls that exercise the scaling: a graph of one or two nodes and no edges
\* (two positions give every pair of ranges), any positions on the grid, any
\* chart size
IsScaleGraph(g) == g.edges = {} /\ g.nodes \in {{1}, {1, 2}}
DimArgs == {None} \cup {Dim(k) : k \in 1..MaxDim}
PosMaps(ns) == [ns -> Coord \X Coord]
ScaleCalls(H, hd) ==
    IF IsScaleGraph(H.graphs[1]) /\ hd.chart = 0
    THEN {[NetworkxDefaults EXCEPT !.pos = PyDict(m), !.floats = f, !.show_orphans = so,
                                   !.chart_width = w, !.chart_height = h] :
             m \in PosMaps(H.graphs[1].nodes), f \in {"float", "numpy.float64"},
             so \in BOOLEAN, w \in DimArgs, h \in DimArgs}
         \cup
         {[NetworkxDefaults EXCEPT !.seed = m, !.chart_width = w, !.chart_height = h] :
             m \in PosMaps(H.graphs[1].nodes), w \in DimArgs, h \in DimArgs}
    ELSE {}

\* The calls of draw_networkx: those above, and calls that exercise the chart
\* size on any graph, with or without the composite drawn earlier (each side a
\* number or None), with a node_size of the right or of the wrong type
NetworkxCalls(H, hd) ==
    StructureCalls(H, hd) \cup ScaleCalls(H, hd)
    \cup {[NetworkxDefaults EXCEPT !.chart = c, !.chart_width = w, !.chart_height = h,
                                   !.node_size = ns] :
            c \in {0, hd.chart}, w \in DimArgs, h \in DimArgs,
            ns \in {PyInt("400"), Bad}}

\* Calls of the four layer builders: the caller holds a directed graph 1 -> 2
\* and the composite drawn from it earlier, and passes any combination of G,
\* chart and a layer of that composite, with any mix of styling arguments
IsStyleGraph(g) == g.nodes = NodeIds /\ g.edges = {<<1, 2>>} /\ g.directed
HeldLayer(H, hd, by) ==
    LET ids == {H.charts[hd.chart].layer[i] : i \in 1..Len(H.charts[hd.chart].layer)}
    IN CHOOSE id \in ids : H.layers[id].by = by
Styled(H, hd) == hd.chart # 0 /\ IsStyleGraph(H.graphs[1])

\* A call leaves at most MaxNonDefault styling arguments away from the
\* defaults of the signature
MaxNonDefault == 3
NonDefault(a, d) == Cardinality({k \in DOMAIN d : a[k] # d[k]})

Cmaps == {None, PyStr("viridis"), Bad}
EdgeSubsets == {None, PyList({<<1, 2>>}), PyList({<<2, 1>>}), Bad}
NodeSubsets == {None, PyList({<<1>>}), PyList({<<0>>}), Bad}

EdgeDefaults ==
    [width |-> PyInt("1"), colour |-> PyStr("grey"), cmap |-> None, alpha |-> PyFloat("1.0"),
     curved_edges |-> FALSE, interpolation |-> PyStr("basis")]
ArrowDefaults ==
    [width |-> PyInt("1"), colour |-> PyStr("grey"), cmap |-> None, alpha |-> PyFloat("1.0")]
NodeDefaults ==
    [size |-> PyInt("400"), outline_width |-> PyFloat("1.0"), shape |-> PyStr("circle"),
     colour |-> PyStr("teal"), cmap |-> None, alpha |-> PyFloat("1.0")]
LabelDefaults ==
    [label |-> None, font_size |-> PyInt("15"), font_colour |-> PyStr("black")]

EdgeCalls(H, hd) ==
    IF Styled(H, hd)
    THEN {a \in
          {[G |-> g, pos |-> None, seed |-> GridSeed, chart |-> c, layer |-> l,
            subset |-> sb, width |-> w, colour |-> co, cmap |-> cm, alpha |-> al,
            tooltip |-> None, legend |-> FALSE, loop_n_points |-> DefaultLoopNPoints,
            curved_edges |-> cu, control_points |-> None, interpolation |-> ip] :
              g \in {0, hd.G}, c \in {0, hd.chart},
              l \in {0, HeldLayer(H, hd, "draw_networkx_edges")},
              sb \in EdgeSubsets,
              w \in {PyInt("1"), PyStr("weight"), PyStr("thick"), Bad},
              co \in {PyStr("grey"), PyStr("weight"), PyStr("kind"), Bad},
              cm \in Cmaps,
              al \in {PyFloat("1.0"), PyStr("weight"), None, Bad},
              cu \in BOOLEAN, ip \in {PyStr("basis"), Bad}} :
          NonDefault(a, EdgeDefaults) <= MaxNonDefault}
    ELSE {}

ArrowCalls(H, hd) ==
    IF Styled(H, hd)
    THEN {a \in
          {[G |-> g, pos |-> None, seed |-> GridSeed, chart |-> c, layer |-> l,
            subset |-> sb, width |-> w, colour |-> co, cmap |-> cm, alpha |-> al,
            tooltip |-> None, legend |-> FALSE,
            curved_edges |-> FALSE, control_points |-> None] :
              g \in {0, hd.G}, c \in {0, hd.chart},
              l \in {0, HeldLayer(H, hd, "draw_networkx_arrows")},
              sb \in EdgeSubsets,
              w \in {PyInt("1"), PyStr("weight"), PyStr("thick"), Bad},
              co \in {PyStr("grey"), PyStr("weight"), PyStr("kind"), Bad},
              cm \in Cmaps,
              al \in {PyFloat("1.0"), PyStr("weight"), None, Bad}} :
          NonDefault(a, ArrowDefaults) <= MaxNonDefault}
    ELSE {}

NodeCalls(H, hd) ==
    IF Styled(H, hd)
    THEN {a \in
          {[G |-> g, pos |-> None, seed |-> GridSeed, chart |-> c, layer |-> l,
            subset |-> sb, size |-> sz, outline_width |-> ow, shape |-> sh,
            colour |-> co, cmap |-> cm, alpha |-> al,
            tooltip |-> None, legend |-> FALSE] :
              g \in {0, hd.G}, c \in {0, hd.chart},
              l \in {0, HeldLayer(H, hd, "draw_networkx_nodes")},
              sb \in NodeSubsets,
              sz \in {PyInt("400"), PyFloat("400.0"), PyStr("score"), PyStr("big"), Bad},
              ow \in {PyFloat("1.0"), PyStr("score"), Bad},
              sh \in {PyStr("circle"), PyStr("group"), Bad},
              co \in {PyStr("teal"), PyStr("score"), PyStr("group"), Bad},
              cm \in Cmaps,
              al \in {PyFloat("1.0"), PyStr("score"), Bad}} :
          NonDefault(a, NodeDefaults) <= MaxNonDefault}
    ELSE {}

LabelCalls(H, hd) ==
    IF Styled(H, hd)
    THEN {[G |-> g, pos |-> None, seed |-> GridSeed, chart |-> c, layer |-> l,
           subset |-> sb, label |-> lb, font_size |-> fs, font_colour |-> fc] :
             g \in {0, hd.G}, c \in {0, hd.chart},
             l \in {0, HeldLayer(H, hd, "draw_networkx_nodes")},
             sb \in NodeSubsets,
             lb \in {None, PyStr("hello"), PyStr("node"), Bad},
             fs \in {PyInt("15"), PyFloat("15.0"), PyStr("score"), PyStr("big"), Bad},
             fc \in {PyStr("black"), PyStr("group"), Bad}}
    ELSE {}

---------------------------------------------------------------------------
(* The state machine: the caller holds a graph, possibly a chart drawn
   earlier, and makes one call *)

NoCall == [fn |-> "none"]
NoResult == [exc |-> NoExc, ret |-> 0, loc |-> NoLocals]

Starts(E) ==
    /\ graphs = E.H.graphs
    /\ layers = E.H.layers
    /\ charts = E.H.charts
    /\ held = E.held
    /\ call = NoCall
    /\ pc = "ready"
    /\ result = NoResult

Init ==
    \E g \in Graphs, earlier \in BOOLEAN :
        Starts(IF earlier THEN Earlier(Arena(<<g>>, <<>>, <<>>))
               ELSE [H |-> Arena(<<g>>, <<>>, <<>>), held |-> HoldsGraph])

Here == Arena(graphs, layers, charts)

Returns(fn, a, R) ==
    /\ graphs' = R.H.graphs
    /\ layers' = R.H.layers
    /\ charts' = R.H.charts
    /\ call' = [fn |-> fn, a |-> a]
    /\ result' = [exc |-> R.exc, ret |-> R.ret, loc |-> R.loc]
    /\ pc' = "done"
    /\ UNCHANGED held

DrawNetworkx ==
    /\ pc = "ready"
    /\ \E a \in NetworkxCalls(Here, held) :
          Returns("draw_networkx", a, draw_networkx(Here, a))

DrawNetworkxEdges ==
    /\ pc = "ready"
    /\ \E a \in EdgeCalls(Here, held) :
          Returns("draw_networkx_edges", a, draw_networkx_edges(Here, a))

DrawNetworkxArrows ==
    /\ pc = "ready"
    /\ \E a \in ArrowCalls(Here, held) :
          Returns("draw_networkx_arrows", a, draw_networkx_arrows(Here, a))

DrawNetworkxNodes ==
    /\ pc = "ready"
    /\ \E a \in NodeCalls(Here, held) :
          Returns("draw_networkx_nodes", a, draw_networkx_nodes(Here, a))

DrawNetworkxLabels ==
    /\ pc = "ready"
    /\ \E a \in LabelCalls(Here, held) :
          Returns("draw_networkx_labels", a, draw_networkx_labels(Here, a))

Next ==
    \/ DrawNetworkx
    \/ DrawNetworkxEdges
    \/ DrawNetworkxArrows
    \/ DrawNetworkxNodes
    \/ DrawNetworkxLabels

Spec == Init /\ [][Next]_vars

---------------------------------------------------------------------------
(* Properties *)

Done(fn) == pc = "done" /\ call.fn = fn
Returned == result.exc.ty = "none"
\* The graph draw_networkx drew: its local G after the filtering
Filtered == graphs[result.loc.G]
\* The composite draw_networkx returned, as the builders of its layers
Composite == charts[result.ret].layer
Builders == [i \in 1..Len(Composite) |-> layers[Composite[i]].by]

\* C1: the composite draw_networkx returns stacks, in this order, an edge
\* layer iff the filtered graph has an edge, an arrow layer iff it is directed
\* and has an edge, a node layer iff it has a node, and then at most a label
\* layer; nothing else and in no other order.
C1_LayerOrder ==
    (Done("draw_networkx") /\ Returned) =>
        LET g == Filtered
            base == (IF g.edges # {} THEN <<"draw_networkx_edges">> ELSE <<>>)
                    \o (IF g.directed /\ g.edges # {} THEN <<"draw_networkx_arrows">> ELSE <<>>)
                    \o (IF g.nodes # {} THEN <<"draw_networkx_nodes">> ELSE <<>>)
        IN Builders \in {base, Append(base, "draw_networkx_labels")}

C1_Witness ==
    /\ Done("draw_networkx") /\ Returned
    /\ Filtered.directed /\ Filtered.edges # {}
    /\ Builders = <<"draw_networkx_edges", "draw_networkx_arrows", "draw_networkx_nodes",
                    "draw_networkx_labels">>

\* C2: a call never changes a graph object that existed before it, the
\* caller's graph in particular: the self-loop and orphan removals act on a
\* copy, whatever show_orphans and show_self_loops are and whether the call
\* returns or raises.
C2_CallerGraphUntouched ==
    [][\A i \in DOMAIN graphs : graphs'[i] = graphs[i]]_vars

C2_Witness ==
    /\ Done("draw_networkx")
    /\ ~call.a.show_orphans /\ ~call.a.show_self_loops
    /\ result.loc.G # call.a.G
    /\ Filtered.nodes # graphs[call.a.G].nodes
    /\ Filtered.edges # graphs[call.a.G].edges

\* The rows of the node layer of the returned composite
NodeLayerRows ==
    UNION {DOMAIN layers[Composite[i]].data.rows :
             i \in {j \in 1..Len(Composite) : Builders[j] = "draw_networkx_nodes"}}
\* The caller's graph after the self-loop policy alone
AfterLoopPolicy ==
    IF call.a.show_self_loops THEN graphs[call.a.G]
    ELSE RemoveEdgesFrom(graphs[call.a.G], SelfLoopEdges(graphs[call.a.G]))

\* C3: with show_orphans=False the node layer draw_networkx returns holds a
\* record for exactly the nodes that have an incident edge after the
\* self-loop policy (a node with only self-loops goes when show_self_loops is
\* False and stays when it is True); with show_orphans=True it holds every node.
C3_NoOrphanDrawn ==
    (Done("draw_networkx") /\ Returned /\ IsNone(call.a.node_subset)) =>
        NodeLayerRows =
            {<<n>> : n \in graphs[call.a.G].nodes \
                           (IF call.a.show_orphans THEN {} ELSE Isolates(AfterLoopPolicy))}

\* The normalised positions draw_networkx computed, and their extent
Normalised == result.loc.pos
RMaxOf(S) == CHOOSE x \in S : \A y \in S : RGe(x, y)
RMinOf(S) == CHOOSE x \in S : \A y \in S : RGe(y, x)
Xs == {Normalised[n][1] : n \in DOMAIN Normalised}
Ys == {Normalised[n][2] : n \in DOMAIN Normalised}
SpansUnit(S) == RMinOf(S) = Rat(0) /\ RMaxOf(S) = Rat(1)
\* Both sizes given, both raw ranges non-zero, and the positions normalised
BothGiven ==
    /\ Done("draw_networkx")
    /\ ~IsNone(call.a.chart_width) /\ ~IsNone(call.a.chart_height)
    /\ DOMAIN Normalised # {}
    /\ ~IsZero(result.loc.x_range) /\ ~IsZero(result.loc.y_range)
AspectMatches ==
    /\ RMinOf(Xs) = Rat(0) /\ RMinOf(Ys) = Rat(0)
    /\ RDiv(RMaxOf(Xs), RMaxOf(Ys)) = RDiv(call.a.chart_width.v, call.a.chart_height.v)

\* C4 (as claimed): with both sizes given and non-zero ranges, the normalised
\* positions start at 0 on each axis, the axis with the shorter raw-data range
\* spans exactly [0, 1], and x extent / y extent = chart_width / chart_height.
C4_ShorterDataAxisUnit ==
    BothGiven =>
        /\ AspectMatches
        /\ RGe(result.loc.y_range, result.loc.x_range)
             /\ result.loc.x_range # result.loc.y_range => SpansUnit(Xs)
        /\ RGe(result.loc.x_range, result.loc.y_range)
             /\ result.loc.x_range # result.loc.y_range => SpansUnit(Ys)

\* C4 (amended): with both sizes given and non-zero ranges, the normalised
\* positions start at 0 on each axis, the axis of the smaller chart side (both
\* axes if the sides are equal) spans exactly [0, 1], and
\* x extent / y extent = chart_width / chart_height.
C4_SmallerChartSideUnit ==
    BothGiven =>
        /\ AspectMatches
        /\ RGe(call.a.chart_height.v, call.a.chart_width.v) => SpansUnit(Xs)
        /\ RGe(call.a.chart_width.v, call.a.chart_height.v) => SpansUnit(Ys)

C4_Witness ==
    /\ BothGiven
    /\ call.a.chart_width.v = Rat(2) /\ call.a.chart_height.v = Rat(1)
    /\ result.loc.x_range = Rat(1) /\ result.loc.y_range = Rat(2)
    /\ RMaxOf(Xs) = Rat(2) /\ RMaxOf(Ys) = Rat(1)

\* The positions draw_networkx scales: pos, or the layout if pos is falsy
ExactlyOneNone ==
    /\ Done("draw_networkx")
    /\ IsNone(call.a.chart_width) # IsNone(call.a.chart_height)
    /\ DOMAIN UsedPos(Filtered, call.a).v # {}

\* C5: when exactly one of chart_width and chart_height is None and the
\* positions are not empty, the call derives the missing side as
\* chart_height * x_range / y_range (or chart_width * y_range / x_range), a
\* number, and returns a chart unless the filtered graph is empty -- also when
\* all nodes share an x or a y coordinate.
C5_DerivedSide ==
    ExactlyOneNone =>
        /\ IsFinite(result.loc.chart_width) /\ ~IsZero(result.loc.chart_width)
        /\ IsFinite(result.loc.chart_height) /\ ~IsZero(result.loc.chart_height)
        /\ Filtered.nodes # {} /\ call.a.chart = 0 => Returned

\* C6: if the filtered graph has no node and no edge, draw_networkx raises and
\* returns no chart, whether pos is None, empty or a non-empty mapping.
C6_EmptyGraphRaises ==
    (Done("draw_networkx") /\ Filtered.nodes = {} /\ Filtered.edges = {}) =>
        /\ ~Returned
        /\ result.ret = 0
        /\ Len(charts) = (IF held.chart = 0 THEN 0 ELSE 1)

C6_Witness ==
    /\ Done("draw_networkx")
    /\ Filtered.nodes = {} /\ Filtered.edges = {}
    /\ ~Falsy(call.a.pos)
    /\ result.exc = Raise("ValueError", "G does not contain any nodes or edges.")

\* The four layer builders, and what a call of one of them left behind
BuilderFns ==
    {"draw_networkx_edges", "draw_networkx_arrows", "draw_networkx_nodes",
     "draw_networkx_labels"}
DoneBuilder == pc = "done" /\ call.fn \in BuilderFns
\* The columns of the record set the builder read, none if it found no source
Cols == result.loc.cols
IsColumn(v) == IsStr(v) /\ v.v \in DOMAIN Cols
\* The layer the builder returned
Layer == layers[result.ret]
Fixed(ch, v) == ch \in DOMAIN Layer.marker /\ Layer.marker[ch] = v
Encoded(ch, v) == ch \in DOMAIN Layer.encoding /\ Layer.encoding[ch].field = v.v
\* Every styling argument other than colour and cmap is the signature's default
DefaultsOf(fn) ==
    IF fn = "draw_networkx_edges" THEN EdgeDefaults
    ELSE IF fn = "draw_networkx_arrows" THEN ArrowDefaults
    ELSE IF fn = "draw_networkx_nodes" THEN NodeDefaults
    ELSE LabelDefaults
OthersDefault ==
    /\ IsNone(call.a.subset)
    /\ \A k \in DOMAIN DefaultsOf(call.fn) \ {"colour", "cmap"} :
          call.a[k] = DefaultsOf(call.fn)[k]
ColourChannel == IF call.fn = "draw_networkx_nodes" THEN "fill" ELSE "color"
CmapCase ==
    /\ DoneBuilder /\ call.fn # "draw_networkx_labels"
    /\ IsStr(call.a.cmap) /\ IsColumn(call.a.colour)

\* C7: in draw_networkx_edges, draw_networkx_arrows and draw_networkx_nodes,
\* when cmap is a colour-map name and colour names a column of the record set,
\* the call raises if the column holds strings, and (the other arguments being
\* the defaults) returns a layer whose colour channel encodes that column
\* through the colour map if the column is numeric.
C7_CmapNeedsNumericColumn ==
    CmapCase =>
        /\ Cols[call.a.colour.v] = "O" => ~Returned
        /\ Cols[call.a.colour.v] # "O" /\ OthersDefault =>
              /\ Returned
              /\ Encoded(ColourChannel, call.a.colour)
              /\ Layer.encoding[ColourChannel].scheme = call.a.cmap.v

\* The styling properties that take a constant or a column name: the
\* argument, the mark attribute and the encoding channel it sets, and whether
\* the code looks the string up among the columns
Prop(fn, arg, mark, enc, lookup) ==
    [fn |-> fn, arg |-> arg, mark |-> mark, enc |-> enc, lookup |-> lookup]
Props ==
    {Prop("draw_networkx_edges", "width", "strokeWidth", "strokeWidth", FALSE),
     Prop("draw_networkx_edges", "colour", "color", "color", TRUE),
     Prop("draw_networkx_edges", "alpha", "opacity", "opacity", FALSE),
     Prop("draw_networkx_arrows", "width", "strokeWidth", "size", FALSE),
     Prop("draw_networkx_arrows", "colour", "color", "color", TRUE),
     Prop("draw_networkx_arrows", "alpha", "opacity", "opacity", FALSE),
     Prop("draw_networkx_nodes", "size", "size", "size", FALSE),
     Prop("draw_networkx_nodes", "outline_width", "strokeWidth", "strokeWidth", FALSE),
     Prop("draw_networkx_nodes", "shape", "shape", "shape", TRUE),
     Prop("draw_networkx_nodes", "colour", "fill", "fill", TRUE),
     Prop("draw_networkx_nodes", "alpha", "opacity", "opacity", FALSE),
     Prop("draw_networkx_labels", "label", "text", "text", TRUE),
     Prop("draw_networkx_labels", "font_size", "size", "size", FALSE),
     Prop("draw_networkx_labels", "font_colour", "fill", "fill", TRUE)}

\* C8 (as claimed): in a layer a builder returns, every such property given
\* as a number, or as a string that is not a column of the record set, is a
\* fixed mark attribute, and given as a string that is a column it is a
\* data-driven encoding of that column.
C8_ColumnDecides ==
    \A p \in Props :
        (Done(p.fn) /\ Returned) =>
            LET v == call.a[p.arg]
            IN /\ IsFloatOrInt(v) \/ (IsStr(v) /\ ~IsColumn(v)) => Fixed(p.mark, v)
               /\ IsColumn(v) => Encoded(p.enc, v)

\* C8 (amended): in a layer a builder returns, a colour, shape, label text or
\* font colour is a fixed mark attribute if its string is not a column of the
\* record set and a data-driven encoding if it is; a width, size, outline
\* width, opacity or font size is a fixed mark attribute if it is a number and
\* a data-driven encoding if it is a string, whether or not the string names
\* a column.
C8_ColumnDecidesForNamesOnly ==
    \A p \in Props :
        (Done(p.fn) /\ Returned) =>
            LET v == call.a[p.arg]
            IN /\ IsFloatOrInt(v) => Fixed(p.mark, v)
               /\ IsStr(v) /\ ~IsColumn(v) =>
                     IF p.lookup THEN Fixed(p.mark, v) ELSE Encoded(p.enc, v)
               /\ IsColumn(v) => Encoded(p.enc, v)

C8_Witness ==
    /\ Done("draw_networkx_labels") /\ Returned
    /\ call.a.font_colour = PyStr("group") /\ IsColumn(call.a.font_colour)
    /\ Encoded("fill", call.a.font_colour)
    /\ call.a.font_size = PyStr("big") /\ ~IsColumn(call.a.font_size)
    /\ Encoded("size", call.a.font_size)
    /\ call.a.label = PyStr("hello") /\ Fixed("text", call.a.label)

\* The styling parameters of each builder
StylingParams(fn) ==
    IF fn = "draw_networkx_edges"
    THEN {"width", "colour", "cmap", "alpha", "interpolation"}
    ELSE IF fn = "draw_networkx_arrows" THEN {"width", "colour", "cmap", "alpha"}
    ELSE IF fn = "draw_networkx_nodes"
    THEN {"size", "outline_width", "shape", "colour", "cmap", "alpha"}
    ELSE {"label", "font_size", "font_colour"}

\* C9: a builder call in which some styling parameter has a value that is
\* neither of a recognised constant type nor a string does not return, and
\* raises TypeError once a source is found and subset is None, whatever the
\* other parameters are.
C9_WrongTypeRaises ==
    (DoneBuilder /\ \E k \in StylingParams(call.fn) : call.a[k] = Bad) =>
        /\ ~Returned
        /\ DOMAIN Cols # {} /\ IsNone(call.a.subset) => result.exc.ty = "TypeError"

\* C10: a builder call raises the missing-source ValueError exactly when G,
\* chart and layer are all None, whatever subset and the styling parameters
\* are.
C10_MissingSource ==
    DoneBuilder =>
        (result.exc = Raise("ValueError", NoSource)
            <=> (call.a.G = 0 /\ call.a.chart = 0 /\ call.a.layer = 0))

C10_Witness ==
    /\ Done("draw_networkx_nodes")
    /\ call.a.G = 0 /\ call.a.chart = 0 /\ call.a.layer = 0
    /\ call.a.subset = Bad /\ call.a.size = Bad
    /\ result.exc = Raise("ValueError", NoSource)

\* C11 (as claimed): the composite draw_networkx returns has a label layer, as
\* its last layer, iff node_label is not None and the filtered graph has a node.
C11_LabelIffNotNone ==
    (Done("draw_networkx") /\ Returned) =>
        (Builders[Len(Builders)] = "draw_networkx_labels"
            <=> (~IsNone(call.a.node_label) /\ Filtered.nodes # {}))

\* C11 (amended): the composite draw_networkx returns has a label layer, as
\* its last layer and nowhere else, iff node_label is a non-empty string and
\* the filtered graph has a node; node_label = '' draws no labels, like None.
C11_LabelIffNonEmpty ==
    (Done("draw_networkx") /\ Returned) =>
        /\ Builders[Len(Builders)] = "draw_networkx_labels"
              <=> (Truthy(call.a.node_label) /\ Filtered.nodes # {})
        /\ \A i \in 1..(Len(Builders) - 1) : Builders[i] # "draw_networkx_labels"

C11_Witness ==
    /\ Done("draw_networkx") /\ Returned
    /\ call.a.node_label = PyStr("node") /\ Filtered.nodes # {}
    /\ ~call.a.show_orphans /\ Filtered.nodes # graphs[call.a.G].nodes
    /\ Builders[Len(Builders)] = "draw_networkx_labels"

\* C12: draw_networkx raises the both-None ValueError when chart_width and
\* chart_height are both None, with no layer object built and no composite
\* changed or created (a supplied chart keeps its layers); with at most one of
\* them None that error is not raised.
C12_BothNoneRaisesFirst ==
    [][call'.fn = "draw_networkx" =>
         IF IsNone(call'.a.chart_width) /\ IsNone(call'.a.chart_height)
         THEN /\ result'.exc = Raise("ValueError", BothNone)
              /\ result'.ret = 0
              /\ layers' = layers
              /\ charts' = charts
         ELSE result'.exc.msg # BothNone]_vars

C12_Witness ==
    /\ Done("draw_networkx")
    /\ IsNone(call.a.chart_width) /\ IsNone(call.a.chart_height)
    /\ call.a.chart # 0 /\ Len(charts[call.a.chart].layer) = 3
    /\ result.exc = Raise("ValueError", BothNone)

\* The coordinates a record set holds for the row group of key k, and the
\* ones the normalised position mapping gives the nodes of k
RowCoords(df, k) == df.rows[k].xy
PosCoords(k) == [j \in 1..Len(k) |-> Normalised[k[j]]]

\* C13: every layer of the composite draw_networkx returns holds, for each of
\* its rows, the coordinates the position mapping normalised in that call
\* gives the row's node (or the row's two end nodes), with or without a
\* pre-existing chart.
C13_SharedCoordinates ==
    (Done("draw_networkx") /\ Returned) =>
        \A i \in 1..Len(Composite) :
            LET df == layers[Composite[i]].data
            IN \A k \in DOMAIN df.rows :
                  /\ \A j \in 1..Len(k) : k[j] \in DOMAIN Normalised
                  /\ RowCoords(df, k) = PosCoords(k)

AllFns == BuilderFns \cup {"draw_networkx"}
\* Every layer object and composite that existed before the step is as it was
ObjectsKept ==
    /\ \A i \in DOMAIN layers : layers'[i] = layers[i]
    /\ \A i \in DOMAIN charts : charts'[i] = charts[i]

\* C14: a call of a drawing function that raises a validation error (a
\* TypeError or ValueError of the function) returns nothing and leaves every
\* chart and layer object that existed before it unchanged: no layer of a
\* chart replaced, no record set replaced.
C14_NoPartialResult ==
    [][(call'.fn \in AllFns /\ result'.exc.ty \in {"TypeError", "ValueError"}) =>
          (result'.ret = 0 /\ ObjectsKept)]_vars

\* The 1-based position of the layer a builder replaces in a chart
ReplacedAt(fn) ==
    IF fn \in {"draw_networkx_edges", "draw_networkx_arrows"} THEN 1 ELSE 2

\* C15: a builder call that returns, given a chart, replaces the layer of that
\* chart at its index (0 for edges and arrows, 1 for nodes and labels) by the
\* layer it returns and changes nothing else: the layer count and the other
\* layers are kept, and no layer object that existed before the call (the
\* supplied layer, the replaced layer) has its record set changed, whatever
\* subset is.
C15_OnlyLayerReplaced ==
    [][(call'.fn \in BuilderFns /\ result'.exc.ty = "none" /\ call'.a.chart # 0) =>
          LET c == call'.a.chart
              at == ReplacedAt(call'.fn)
          IN /\ Len(charts'[c].layer) = Len(charts[c].layer)
             /\ charts'[c].layer[at] = result'.ret
             /\ \A i \in 1..Len(charts[c].layer) :
                    i # at => charts'[c].layer[i] = charts[c].layer[i]
             /\ \A i \in DOMAIN layers : layers'[i] = layers[i]]_vars

\* C16: a builder call whose subset is a list and that found a record set
\* never raises on account of an identifier the record set does not hold
\* (no KeyError), and the layer it returns holds rows of the listed
\* identifiers only, none at all if all of them are unknown.
C16_UnknownSubsetIgnored ==
    (DoneBuilder /\ IsList(call.a.subset) /\ DOMAIN Cols # {}) =>
        /\ result.exc.ty # "KeyError"
        /\ Returned => DOMAIN Layer.data.rows \subseteq call.a.subset.v

\* C17: draw_networkx_nodes(chart = c) and draw_networkx_labels(chart = c), c
\* a composite draw_networkx returned, read node records and put the layer
\* they return in the place of the node layer of c; every other layer of c,
\* the arrow layer of a directed graph in particular, stays where it was.
C17_NodeLayerTargeted ==
    [][(call'.fn \in {"draw_networkx_nodes", "draw_networkx_labels"}
          /\ call'.a.chart # 0 /\ call'.a.layer = 0 /\ result'.exc.ty = "none") =>
          LET old == charts[call'.a.chart].layer
              new == charts'[call'.a.chart].layer
              at == CHOOSE i \in 1..Len(old) : layers[old[i]].by = "draw_networkx_nodes"
          IN /\ layers'[result'.ret].data.kind = "nodes"
             /\ new[at] = result'.ret
             /\ \A i \in 1..Len(old) : i # at => new[i] = old[i]]_vars

\* C18: after a draw_networkx_edges or draw_networkx_arrows call on a chart,
\* layer 0 of the chart is an edge layer: built by draw_networkx_edges, over
\* edge-path records, ordered by 'order'.
C18_EdgeLayerKept ==
    (pc = "done" /\ call.fn \in {"draw_networkx_edges", "draw_networkx_arrows"}
       /\ call.a.chart # 0 /\ Returned) =>
        LET l == layers[charts[call.a.chart].layer[1]]
        IN /\ l.by = "draw_networkx_edges"
           /\ l.data.kind = "edges"
           /\ "order" \in DOMAIN l.encoding

\* C19: in the layer a builder returns no channel is set both as a fixed mark
\* attribute and as a data-driven encoding.
C19_OneCollectionPerChannel ==
    (DoneBuilder /\ Returned) => DOMAIN Layer.marker \cap DOMAIN Layer.encoding = {}

====
